---------------------------- MODULE Spec2Model ----------------------------
(***************************************************************************)
(* Model of AerosolAnalysis.add_fv3_increments                             *)
(* (ush/python/pygfs/task/aero_analysis.py) and of the templates its       *)
(* caller _add_fms_cube_sphere_increments builds.                          *)
(*                                                                         *)
(* A netCDF file is a record [exists, vars]; a variable is a record        *)
(* [present, data, attrs].  Arrays are one-dimensional sequences of        *)
(* integers, so a shape is a length; numpy's broadcasting rule for `+`     *)
(* (equal lengths, or one of the two of length one) is kept, and so is     *)
(* the refusal of netCDF4 to store an array that does not conform to the   *)
(* fixed shape of the variable.                                            *)
(*                                                                         *)
(* Around it: AerosolAnalysis.finalize and the aero post script (SpecFin), *)
(* the B-matrix job script over AerosolBMatrix (SpecBmat), the snow        *)
(* analysis script with SnowAnalysis.add_increments (SpecSnow) and         *)
(* SnowAnalysis.prepare_IMS (SpecIms).  Each job has one record variable;  *)
(* a job that a specification does not run stays at its idle record.       *)
(***************************************************************************)
EXTENDS Integers, Sequences, FiniteSets, TLC

VARIABLES fs,            \* the file system: path -> file
          fs0,           \* the file system when the current call started
          fsOrig,        \* the file system before the first call
          DOIAU,         \* task_config.DOIAU
          incvars,       \* the list of increment variables
          inc_file_tmpl, \* argument of add_fv3_increments
          bkg_file_tmpl, \* argument of add_fv3_increments
          delok,         \* the storage format can delete an attribute
          itile,         \* loop variable of the tile loop (0: not entered)
          tl,            \* per tile: position and locals of the loop body
          opened,        \* the Dataset handles that are open
          status,        \* "running", "returned" or "raised"
          raised,        \* the exception the call raised ("none" if none)
          ncalls,        \* number of calls started
          log,           \* per tile, the operations of the current call in order
          shuffled,      \* a tile was entered while a higher one was under way
          fin,           \* AerosolAnalysis.finalize: position, diags, COM, tar
          post,          \* exglobal_aero_analysis_post.py: position
          bmat,          \* exgdas_aero_analysis_generate_bmatrix.py: position, calls
          snow,          \* exglobal_snow_analysis.py and add_increments
          ims            \* SnowAnalysis.prepare_IMS: position, files

\* the variables of add_fv3_increments
addvars == <<fs, fs0, fsOrig, DOIAU, incvars, inc_file_tmpl, bkg_file_tmpl,
             delok, itile, tl, opened, status, raised, ncalls, log, shuffled>>

\* the variables of the jobs around it
jobvars == <<fin, post, bmat, snow, ims>>

vars == <<addvars, jobvars>>

---------------------------------------------------------------------------
(* Bounds *)

NTiles == 2

MaxIncvars == 2

MaxCalls == 2

MaxDiags == 2

---------------------------------------------------------------------------
(* The data *)

Tiles == 1..NTiles

\* names the increment list is drawn from
IncNames == {"a", "b"}

\* the variables a tracer file holds; "c" is never in the increment list
VarNames == IncNames \cup {"c"}

Times == {"window_begin", "current_cycle"}

Prefixes == {"", "aeroinc."}

Paths == [pre : Prefixes, time : Times, tile : Tiles]

NoVar == [present |-> FALSE, data |-> <<>>, attrs |-> {}]

NoFile == [exists |-> FALSE, vars |-> [v \in VarNames |-> NoVar]]

VarIdx(v) == IF v = "a" THEN 1 ELSE IF v = "b" THEN 2 ELSE 3

BkgVal(t, v, i) == 100 * t + 10 * VarIdx(v) + i

IncVal(t, v, i) == 3 * t + 2 * VarIdx(v) - 4 * i

---------------------------------------------------------------------------
(* to_fv3time / str.format / the templates of the caller *)

Template(pre, time) == [pre |-> pre, time |-> time]

\* a template without the {tilenum} field
FormatNoTile(tmpl, tilenum) ==
    [pre |-> tmpl.pre, time |-> tmpl.time, tile |-> 1]

Format(tmpl, tilenum) ==
    [pre |-> tmpl.pre, time |-> tmpl.time, tile |-> tilenum]

bkgtime(doiau) == IF doiau THEN "window_begin" ELSE "current_cycle"

restart_template(doiau) == Template("", bkgtime(doiau))

increment_template == Template("", "current_cycle")

\* the increment template without the 'aeroinc.' prefix
inc_templateNoPrefix == Template("", increment_template.time)

\* line 239: 'aeroinc.' + increment_template
inc_template == Template("aeroinc.", increment_template.time)

bkg_template(doiau) == restart_template(doiau)

---------------------------------------------------------------------------
(* numpy and netCDF4 *)

Broadcastable(x, y) == Len(x) = Len(y) \/ Len(x) = 1 \/ Len(y) = 1

NumpyAdd(x, y) ==
    IF Len(x) = Len(y) THEN [i \in 1..Len(x) |-> x[i] + y[i]]
    ELSE IF Len(y) = 1 THEN [i \in 1..Len(x) |-> x[i] + y[1]]
    ELSE [i \in 1..Len(y) |-> x[1] + y[i]]

\* Variable.__setitem__ with [:] on a variable of fixed shape
Conforms(var, data) == Len(data) = Len(var.data) \/ Len(data) = 1

SetItem(var, data) ==
    [var EXCEPT !.data = IF Len(data) = Len(var.data) THEN data
                         ELSE [i \in 1..Len(var.data) |-> data[1]]]

\* every attribute of the variable goes
DelNcAttrAll(var, name) == [var EXCEPT !.attrs = {}]

\* Variable.delncattr
DelNcAttr(var, name) == [var EXCEPT !.attrs = @ \ {name}]

---------------------------------------------------------------------------
(* The files a call may find: at most one of them departs from a well      *)
(* formed pair of tracer files (the first fatal departure ends the call).  *)

FaultKinds == {"noinc", "nobkg", "incvar_missing", "bkgvar_missing",
               "inc_len1", "inc_len3", "bkg_len1"}

NoFault == [kind |-> "none", tile |-> 0, var |-> "a"]

Faults == {NoFault}
          \cup [kind : {"noinc", "nobkg"}, tile : Tiles, var : {"a"}]
          \cup [kind : FaultKinds \ {"noinc", "nobkg"}, tile : Tiles, var : IncNames]

\* departures no step fails on
BenignFaults == {NoFault, [kind |-> "inc_len1", tile |-> 1, var |-> "a"]}

\* the variables of a background file that carry a checksum
ChecksumSets == {{}, {"a"}, {"a", "c"}, VarNames}

Hits(f, kind, t, v) == f.kind = kind /\ f.tile = t /\ f.var = v

IncLen(f, t, v) ==
    IF Hits(f, "inc_len1", t, v) THEN 1
    ELSE IF Hits(f, "inc_len3", t, v) THEN 3 ELSE 2

BkgLen(f, t, v) == IF Hits(f, "bkg_len1", t, v) THEN 1 ELSE 2

IncFile(f, t) ==
    IF f.kind = "noinc" /\ f.tile = t THEN NoFile
    ELSE [exists |-> TRUE,
          vars |-> [v \in VarNames |->
                      IF Hits(f, "incvar_missing", t, v) THEN NoVar
                      ELSE [present |-> TRUE,
                            data |-> [i \in 1..IncLen(f, t, v) |-> IncVal(t, v, i)],
                            attrs |-> {"long_name", "checksum"}]]]

BkgFile(f, t, ck) ==
    IF f.kind = "nobkg" /\ f.tile = t THEN NoFile
    ELSE [exists |-> TRUE,
          vars |-> [v \in VarNames |->
                      IF Hits(f, "bkgvar_missing", t, v) THEN NoVar
                      ELSE [present |-> TRUE,
                            data |-> [i \in 1..BkgLen(f, t, v) |-> BkgVal(t, v, i)],
                            attrs |-> {"long_name"} \cup
                                      (IF v \in ck THEN {"checksum"} ELSE {})]]]

\* DATA/anl as the staging before finalize leaves it
Staged(f, doiau, ck) ==
    [p \in Paths |->
       IF p.pre = "aeroinc."
       THEN (IF p.time = "current_cycle" THEN IncFile(f, p.tile) ELSE NoFile)
       ELSE IF p.time = bkgtime(doiau) THEN BkgFile(f, p.tile, ck)
       ELSE BkgFile(NoFault, p.tile, ck)]

IncvarLists == UNION {[1..n -> IncNames] : n \in 1..MaxIncvars}

NoPath == [pre |-> "", time |-> "", tile |-> 0]

TileIdle == [pc |-> "idle", inc_path |-> NoPath, bkg_path |-> NoPath,
             ivar |-> 0, increment |-> <<>>, bkg |-> <<>>, anl |-> <<>>,
             exc |-> "none"]

\* nothing copied to COM
NoCom == [p \in Paths |-> NoFile]

\* the tar file does not exist
NoTar == [exists |-> FALSE, members |-> {}]

\* the jobs before they start
FinIdle == [pc |-> "idle", datadiags |-> {}, diags |-> {}, gz |-> {},
            com |-> NoCom, aerostat |-> NoTar, exc |-> "none"]

PostIdle == [pc |-> "idle", method |-> "", exc |-> "none"]

\* the names the three AerosolBMatrix objects are built with
BmatTasks == {"aero_convertstate", "aero_diffusion", "aero_diagb"}

NoTask == [built |-> FALSE, JEDIEXE |-> "", algorithm |-> "", yaml |-> FALSE,
           exe |-> ""]

BmatIdle == [pc |-> 0, fail |-> 0, exc |-> "none", JEDIEXE |-> "",
             tasks |-> [n \in BmatTasks |-> NoTask], calls |-> <<>>]

NoFail == [at |-> "nowhere", k |-> 0, exc |-> "none"]

SnowIdle == [pc |-> "idle", fail |-> NoFail, exc |-> "none", bkgtimes |-> <<>>,
             k |-> 0, anl |-> {}, calls |-> <<>>, trace |-> <<>>]

\* has_get_bkg_dict: the object provides get_bkg_dict (SnowAnalysis itself
\* does not); cwd_is_data: the working directory is DATA; data_out and
\* com_obs: the ims_snow file in DATA and in COM_OBS ("none", "stale" from
\* an earlier run, or "fresh" from this converter run)
ImsIdle == [pc |-> "idle", has_get_bkg_dict |-> FALSE, cwd_is_data |-> TRUE,
            calcfims |-> "ok", input_file |-> FALSE, ims2ioda |-> "ok",
            writes |-> FALSE, data_out |-> "none", com_obs |-> "none",
            converter_ran |-> FALSE, exc |-> "none"]

JobsIdle ==
    /\ fin = FinIdle
    /\ post = PostIdle
    /\ bmat = BmatIdle
    /\ snow = SnowIdle
    /\ ims = ImsIdle

\* the arguments and files of a call; st is "running" when the call has
\* been entered and "idle" when its caller has yet to make it
InitCall(doiaus, faults, cks, st) ==
    /\ DOIAU \in doiaus
    /\ delok \in BOOLEAN
    /\ incvars \in IncvarLists
    /\ \E f \in faults, ck \in cks : fs = Staged(f, DOIAU, ck)
    /\ fs0 = fs
    /\ fsOrig = fs
    /\ inc_file_tmpl = inc_template
    /\ bkg_file_tmpl = bkg_template(DOIAU)
    /\ itile = 0
    /\ tl = [t \in Tiles |-> TileIdle]
    /\ opened = {}
    /\ status = st
    /\ raised = "none"
    /\ ncalls = 1
    /\ log = [t \in Tiles |-> <<>>]
    /\ shuffled = FALSE

InitWith(doiaus, faults, cks) == InitCall(doiaus, faults, cks, "running") /\ JobsIdle

Init == InitWith(BOOLEAN, Faults, ChecksumSets)

---------------------------------------------------------------------------
(* add_fv3_increments, one action per statement of the loop body *)

Ev(op, t, v) == [op |-> op, tile |-> t, var |-> v]

Logged(t, ev) == [log EXCEPT ![t] = Append(@, ev)]

Handle(path, mode, t) == [path |-> path, mode |-> mode, tile |-> t]

SetTile(t, r) == tl' = [tl EXCEPT ![t] = r]

\* the exception leaves the loop body and nothing is closed
UnwindNoExit(r, exc, pc) == [r EXCEPT !.exc = exc, !.pc = "failed"]

\* the exception leaves the with statement: __exit__ of what is open
Unwind(r, exc, pc) == [r EXCEPT !.exc = exc, !.pc = pc]

\* for vname in incvars: the next name, or the end of the with block
ForVname(r) ==
    IF r.ivar < Len(incvars)
    THEN [r EXCEPT !.ivar = @ + 1, !.pc = "read_inc"]
    ELSE [r EXCEPT !.pc = "exit_rst"]

vname(r) == incvars[r.ivar]

\* the background path formatted with another tile number
EnterTileMixed(t) ==
    tl' = [tl EXCEPT ![t] =
             [TileIdle EXCEPT !.pc = "open_inc",
                              !.inc_path = Format(inc_file_tmpl, t),
                              !.bkg_path = Format(bkg_file_tmpl, NTiles + 1 - t)]]

\* lines 261-262: both paths are formatted with the tile number
EnterTile(t) ==
    SetTile(t, [TileIdle EXCEPT !.pc = "open_inc",
                                !.inc_path = Format(inc_file_tmpl, t),
                                !.bkg_path = Format(bkg_file_tmpl, t)])

\* line 260: the loop takes the next tile number of range(1, ntiles + 1)
ForTile ==
    /\ status = "running"
    /\ itile < NTiles
    /\ IF itile = 0 THEN TRUE ELSE tl[itile].pc = "done"
    /\ itile' = itile + 1
    /\ EnterTile(itile + 1)
    /\ UNCHANGED <<fs, fs0, fsOrig, DOIAU, incvars, inc_file_tmpl,
                   bkg_file_tmpl, delok, opened, status, raised, ncalls, log,
                   shuffled, jobvars>>

\* line 263: Dataset(inc_path, mode='r')
OpenInc(t) ==
    /\ status = "running"
    /\ tl[t].pc = "open_inc"
    /\ log' = Logged(t, Ev("open_inc", t, ""))
    /\ IF fs[tl[t].inc_path].exists
       THEN /\ opened' = opened \cup {Handle(tl[t].inc_path, "r", t)}
            /\ SetTile(t, [tl[t] EXCEPT !.pc = "open_rst"])
       ELSE /\ SetTile(t, Unwind(tl[t], "FileNotFoundError", "failed"))
            /\ UNCHANGED opened
    /\ UNCHANGED <<fs, fs0, fsOrig, DOIAU, incvars, inc_file_tmpl,
                   bkg_file_tmpl, delok, itile, status, raised, ncalls,
                   shuffled, jobvars>>

\* the background file opened in a mode that creates a missing file
OpenRstCreate(t) ==
    /\ status = "running"
    /\ tl[t].pc = "open_rst"
    /\ log' = Logged(t, Ev("open_rst", t, ""))
    /\ opened' = opened \cup {Handle(tl[t].bkg_path, "a", t)}
    /\ fs' = [fs EXCEPT ![tl[t].bkg_path].exists = TRUE]
    /\ tl' = [tl EXCEPT ![t] = ForVname(tl[t])]
    /\ UNCHANGED <<fs0, fsOrig, DOIAU, incvars, inc_file_tmpl,
                   bkg_file_tmpl, delok, itile, status, raised, ncalls,
                   shuffled, jobvars>>

\* line 263: Dataset(bkg_path, mode='a'); append mode needs the file
OpenRst(t) ==
    /\ status = "running"
    /\ tl[t].pc = "open_rst"
    /\ log' = Logged(t, Ev("open_rst", t, ""))
    /\ IF fs[tl[t].bkg_path].exists
       THEN /\ opened' = opened \cup {Handle(tl[t].bkg_path, "a", t)}
            /\ SetTile(t, ForVname(tl[t]))
       ELSE /\ SetTile(t, Unwind(tl[t], "FileNotFoundError", "exit_inc"))
            /\ UNCHANGED opened
    /\ UNCHANGED <<fs, fs0, fsOrig, DOIAU, incvars, inc_file_tmpl,
                   bkg_file_tmpl, delok, itile, status, raised, ncalls,
                   shuffled, jobvars>>

\* a name the increment file does not hold is skipped
ReadIncSkip(t) ==
    /\ status = "running"
    /\ tl[t].pc = "read_inc"
    /\ LET var == fs[tl[t].inc_path].vars[incvars[tl[t].ivar]] IN
       IF var.present
       THEN /\ tl' = [tl EXCEPT ![t] = [tl[t] EXCEPT !.increment = var.data,
                                                     !.pc = "read_bkg"]]
            /\ log' = Logged(t, Ev("read_inc", t, incvars[tl[t].ivar]))
       ELSE /\ tl' = [tl EXCEPT ![t] = ForVname(tl[t])]
            /\ UNCHANGED log
    /\ UNCHANGED <<fs, fs0, fsOrig, DOIAU, incvars, inc_file_tmpl,
                   bkg_file_tmpl, delok, itile, opened, status, raised, ncalls,
                   shuffled, jobvars>>

\* line 265: increment = incfile.variables[vname][:]
ReadInc(t) ==
    /\ status = "running"
    /\ tl[t].pc = "read_inc"
    /\ LET var == fs[tl[t].inc_path].vars[vname(tl[t])] IN
       IF var.present
       THEN /\ SetTile(t, [tl[t] EXCEPT !.increment = var.data, !.pc = "read_bkg"])
            /\ log' = Logged(t, Ev("read_inc", t, vname(tl[t])))
       ELSE /\ SetTile(t, Unwind(tl[t], "KeyError", "exit_rst"))
            /\ UNCHANGED log
    /\ UNCHANGED <<fs, fs0, fsOrig, DOIAU, incvars, inc_file_tmpl,
                   bkg_file_tmpl, delok, itile, opened, status, raised, ncalls,
                   shuffled, jobvars>>

\* the background is read as it was when the call started
ReadBkgOriginal(t) ==
    /\ status = "running"
    /\ tl[t].pc = "read_bkg"
    /\ LET var == fs0[tl[t].bkg_path].vars[incvars[tl[t].ivar]] IN
       IF var.present
       THEN /\ tl' = [tl EXCEPT ![t] = [tl[t] EXCEPT !.bkg = var.data, !.pc = "add"]]
            /\ log' = Logged(t, Ev("read_bkg", t, incvars[tl[t].ivar]))
       ELSE /\ tl' = [tl EXCEPT ![t] = Unwind(tl[t], "KeyError", "exit_rst")]
            /\ UNCHANGED log
    /\ UNCHANGED <<fs, fs0, fsOrig, DOIAU, incvars, inc_file_tmpl,
                   bkg_file_tmpl, delok, itile, opened, status, raised, ncalls,
                   shuffled, jobvars>>

\* the background is read for the first name only and kept for the others
ReadBkgStale(t) ==
    /\ status = "running"
    /\ tl[t].pc = "read_bkg"
    /\ LET var == fs[tl[t].bkg_path].vars[incvars[tl[t].ivar]] IN
       IF var.present
       THEN /\ tl' = [tl EXCEPT ![t] =
                       [tl[t] EXCEPT !.bkg = IF tl[t].ivar = 1 THEN var.data ELSE @,
                                     !.pc = "add"]]
            /\ log' = Logged(t, Ev("read_bkg", t, incvars[tl[t].ivar]))
       ELSE /\ tl' = [tl EXCEPT ![t] = Unwind(tl[t], "KeyError", "exit_rst")]
            /\ UNCHANGED log
    /\ UNCHANGED <<fs, fs0, fsOrig, DOIAU, incvars, inc_file_tmpl,
                   bkg_file_tmpl, delok, itile, opened, status, raised, ncalls,
                   shuffled, jobvars>>

\* line 266: bkg = rstfile.variables[vname][:]
ReadBkg(t) ==
    /\ status = "running"
    /\ tl[t].pc = "read_bkg"
    /\ LET var == fs[tl[t].bkg_path].vars[vname(tl[t])] IN
       IF var.present
       THEN /\ SetTile(t, [tl[t] EXCEPT !.bkg = var.data, !.pc = "add"])
            /\ log' = Logged(t, Ev("read_bkg", t, vname(tl[t])))
       ELSE /\ SetTile(t, Unwind(tl[t], "KeyError", "exit_rst"))
            /\ UNCHANGED log
    /\ UNCHANGED <<fs, fs0, fsOrig, DOIAU, incvars, inc_file_tmpl,
                   bkg_file_tmpl, delok, itile, opened, status, raised, ncalls,
                   shuffled, jobvars>>

\* the sum replaced by the increment alone
AnlOverwrite(bkg, increment) ==
    IF Len(increment) = Len(bkg) THEN increment
    ELSE [i \in 1..Len(bkg) |-> increment[1]]

\* line 267: anl = bkg + increment
Anl(bkg, increment) == NumpyAdd(bkg, increment)

Add(t) ==
    /\ status = "running"
    /\ tl[t].pc = "add"
    /\ IF Broadcastable(tl[t].bkg, tl[t].increment)
       THEN /\ SetTile(t, [tl[t] EXCEPT !.anl = Anl(tl[t].bkg, tl[t].increment),
                                        !.pc = "write"])
            /\ log' = Logged(t, Ev("add", t, vname(tl[t])))
       ELSE /\ SetTile(t, Unwind(tl[t], "ValueError", "exit_rst"))
            /\ UNCHANGED log
    /\ UNCHANGED <<fs, fs0, fsOrig, DOIAU, incvars, inc_file_tmpl,
                   bkg_file_tmpl, delok, itile, opened, status, raised, ncalls,
                   shuffled, jobvars>>

\* the sum stored in the increment file
WritePathInc(r) == r.inc_path

\* line 268: the file the sum is stored in
WritePath(r) == r.bkg_path

\* the sum stored in a variable that was not asked for
WriteNameOther(r) == "c"

\* line 268: the variable the sum is stored in
WriteName(r) == vname(r)

\* line 268: rstfile.variables[vname][:] = anl[:]
Write(t) ==
    /\ status = "running"
    /\ tl[t].pc = "write"
    /\ LET path == WritePath(tl[t])
           name == WriteName(tl[t])
           var  == fs[path].vars[name] IN
       IF Conforms(var, tl[t].anl)
       THEN /\ fs' = [fs EXCEPT ![path].vars[name] = SetItem(var, tl[t].anl)]
            /\ SetTile(t, [tl[t] EXCEPT !.pc = "delattr"])
            /\ log' = Logged(t, Ev("write", t, vname(tl[t])))
       ELSE /\ SetTile(t, Unwind(tl[t], "IndexError", "exit_rst"))
            /\ UNCHANGED <<fs, log, jobvars>>
    /\ UNCHANGED <<fs0, fsOrig, DOIAU, incvars, inc_file_tmpl,
                   bkg_file_tmpl, delok, itile, opened, status, raised, ncalls,
                   shuffled, jobvars>>

\* the failure of delncattr is not caught
DelChecksumUncaught(t) ==
    /\ status = "running"
    /\ tl[t].pc = "delattr"
    /\ LET path == tl[t].bkg_path
           name == incvars[tl[t].ivar]
           var  == fs[path].vars[name] IN
       IF "checksum" \in var.attrs /\ delok
       THEN /\ fs' = [fs EXCEPT ![path].vars[name] = DelNcAttr(var, "checksum")]
            /\ tl' = [tl EXCEPT ![t] = ForVname(tl[t])]
       ELSE /\ tl' = [tl EXCEPT ![t] = Unwind(tl[t], "RuntimeError", "exit_rst")]
            /\ UNCHANGED fs
    /\ log' = Logged(t, Ev("delattr", t, incvars[tl[t].ivar]))
    /\ UNCHANGED <<fs0, fsOrig, DOIAU, incvars, inc_file_tmpl,
                   bkg_file_tmpl, delok, itile, opened, status, raised, ncalls,
                   shuffled, jobvars>>

\* lines 269-272: delncattr('checksum'); AttributeError and RuntimeError
\* are caught and the loop goes on
DelChecksum(t) ==
    /\ status = "running"
    /\ tl[t].pc = "delattr"
    /\ LET path == tl[t].bkg_path
           name == vname(tl[t])
           var  == fs[path].vars[name] IN
       IF "checksum" \in var.attrs /\ delok
       THEN fs' = [fs EXCEPT ![path].vars[name] = DelNcAttr(var, "checksum")]
       ELSE UNCHANGED fs
    /\ SetTile(t, ForVname(tl[t]))
    /\ log' = Logged(t, Ev("delattr", t, vname(tl[t])))
    /\ UNCHANGED <<fs0, fsOrig, DOIAU, incvars, inc_file_tmpl,
                   bkg_file_tmpl, delok, itile, opened, status, raised, ncalls,
                   shuffled, jobvars>>

\* end of the with block: rstfile.__exit__ closes the background file
ExitRst(t) ==
    /\ status = "running"
    /\ tl[t].pc = "exit_rst"
    /\ opened' = opened \ {Handle(tl[t].bkg_path, "a", t)}
    /\ SetTile(t, [tl[t] EXCEPT !.pc = "exit_inc"])
    /\ log' = Logged(t, Ev("close_rst", t, ""))
    /\ UNCHANGED <<fs, fs0, fsOrig, DOIAU, incvars, inc_file_tmpl,
                   bkg_file_tmpl, delok, itile, status, raised, ncalls,
                   shuffled, jobvars>>

\* end of the with block: incfile.__exit__ closes the increment file, and
\* a pending exception goes on to the caller
ExitInc(t) ==
    /\ status = "running"
    /\ tl[t].pc = "exit_inc"
    /\ opened' = opened \ {Handle(tl[t].inc_path, "r", t)}
    /\ SetTile(t, [tl[t] EXCEPT !.pc = IF tl[t].exc = "none" THEN "done" ELSE "failed"])
    /\ log' = Logged(t, Ev("close_inc", t, ""))
    /\ UNCHANGED <<fs, fs0, fsOrig, DOIAU, incvars, inc_file_tmpl,
                   bkg_file_tmpl, delok, itile, status, raised, ncalls,
                   shuffled, jobvars>>

\* no handler in add_fv3_increments: the exception leaves the method
Raise(t) ==
    /\ status = "running"
    /\ tl[t].pc = "failed"
    /\ status' = "raised"
    /\ raised' = tl[t].exc
    /\ UNCHANGED <<fs, fs0, fsOrig, DOIAU, incvars, inc_file_tmpl,
                   bkg_file_tmpl, delok, itile, tl, opened, ncalls, log,
                   shuffled, jobvars>>

\* the tile loop is exhausted: the method returns None
Return ==
    /\ status = "running"
    /\ \A t \in Tiles : tl[t].pc = "done"
    /\ status' = "returned"
    /\ UNCHANGED <<fs, fs0, fsOrig, DOIAU, incvars, inc_file_tmpl,
                   bkg_file_tmpl, delok, itile, tl, opened, raised, ncalls, log,
                   shuffled, jobvars>>

\* the caller calls add_fv3_increments again with the same arguments
CallAgain ==
    /\ status = "returned"
    /\ ncalls < MaxCalls
    /\ ncalls' = ncalls + 1
    /\ status' = "running"
    /\ fs0' = fs
    /\ itile' = 0
    /\ tl' = [t \in Tiles |-> TileIdle]
    /\ log' = [t \in Tiles |-> <<>>]
    /\ UNCHANGED <<fs, fsOrig, DOIAU, incvars, inc_file_tmpl, bkg_file_tmpl,
                   delok, opened, raised,
                   shuffled, jobvars>>

Body(t) ==
    \/ OpenInc(t) \/ OpenRst(t)
    \/ ReadInc(t) \/ ReadBkg(t) \/ Add(t) \/ Write(t) \/ DelChecksum(t)
    \/ ExitRst(t) \/ ExitInc(t)

Next ==
    \/ ForTile
    \/ \E t \in Tiles : Body(t)
    \/ \E t \in Tiles : Raise(t)
    \/ Return
    \/ CallAgain

Spec == Init /\ [][Next]_vars

---------------------------------------------------------------------------
(* Vocabulary of the properties *)

Named == {incvars[i] : i \in DOMAIN incvars}

Distinct(seq) == \A i, j \in DOMAIN seq : i # j => seq[i] # seq[j]

BkgPath(t) == Format(bkg_file_tmpl, t)

IncPath(t) == Format(inc_file_tmpl, t)

Finished == status \in {"returned", "raised"}

\* after = before + n * inc, element by element (an increment of one
\* element counts for every element of the background)
PlusTimes(before, inc, n, after) ==
    /\ Len(after) = Len(before)
    /\ \A i \in 1..Len(before) :
         after[i] = before[i] + n * inc[IF Len(inc) = 1 THEN 1 ELSE i]

Summed(t, v) ==
    PlusTimes(fs0[BkgPath(t)].vars[v].data, fs0[IncPath(t)].vars[v].data, 1,
              fs[BkgPath(t)].vars[v].data)

Count(op, t) == Cardinality({k \in DOMAIN log[t] : log[t][k].op = op})

---------------------------------------------------------------------------
\* C1 (additivity): when a call returns and the names of incvars are
\* distinct, every named variable of every tile's background file holds its
\* value from before the call plus the increment file's value, element by
\* element.
C1_Additivity ==
    (status = "returned" /\ Distinct(incvars)) =>
        \A t \in Tiles : \A v \in Named : Summed(t, v)

C1_Witness ==
    /\ status = "returned"
    /\ Len(incvars) = 2
    /\ Distinct(incvars)
    /\ \A t \in Tiles : Count("write", t) = 2

\* C2 (non-interference): once a call has returned or raised, every
\* variable of every background file whose name is not in incvars is what
\* it was before the call.
C2_NonInterference ==
    Finished =>
        \A p \in Paths : \A v \in VarNames \ Named :
            p.pre = "" => fs[p].vars[v] = fs0[p].vars[v]

C2_Witness ==
    /\ status = "raised"
    /\ Named # IncNames
    /\ \E t \in Tiles : Count("write", t) > 0

\* C3 (increment files are read-only): an increment file is only ever open
\* in mode 'r', and once a call has returned or raised every increment file
\* equals what it was before the call; the files that differ are background
\* files of the call.
C3_IncrementReadOnly ==
    /\ \A h \in opened : h.path.pre = "aeroinc." => h.mode = "r"
    /\ Finished =>
         /\ \A p \in Paths : p.pre = "aeroinc." => fs[p] = fs0[p]
         /\ \A p \in Paths : fs[p] # fs0[p] => \E t \in Tiles : p = BkgPath(t)

C3_Witness ==
    /\ status = "returned"
    /\ \A t \in Tiles : fs[BkgPath(t)] # fs0[BkgPath(t)]

\* C4 (no idempotence): after the n-th successive successful call with the
\* same arguments and unchanged increment files, every named variable holds
\* its original value plus n times the increment; after two calls, twice.
C4_TwiceDoubles ==
    (status = "returned" /\ ncalls >= 2 /\ Distinct(incvars)) =>
        \A t \in Tiles : \A v \in Named :
            PlusTimes(fsOrig[BkgPath(t)].vars[v].data,
                      fsOrig[IncPath(t)].vars[v].data, ncalls,
                      fs[BkgPath(t)].vars[v].data)

C4_Witness ==
    /\ status = "returned"
    /\ ncalls = 2
    /\ Distinct(incvars)
    /\ \E t \in Tiles : \E v \in Named :
         fs[BkgPath(t)].vars[v].data # fs0[BkgPath(t)].vars[v].data

---------------------------------------------------------------------------
\* delncattr cannot remove a checksum from variable v of tile t's
\* background file: there is none, or the format cannot delete it
NoRemovableChecksum(t, v) ==
    \/ "checksum" \notin fs[BkgPath(t)].vars[v].attrs
    \/ ~delok

C6_Step ==
    \A t \in Tiles :
        (/\ tl[t].pc = "delattr"
         /\ tl'[t] # tl[t]
         /\ NoRemovableChecksum(t, vname(tl[t])))
        => /\ tl'[t].exc = "none"
           /\ status' = "running"
           /\ fs' = fs
           /\ fs[BkgPath(t)].vars[vname(tl[t])].data = Anl(tl[t].bkg, tl[t].increment)
           /\ IF tl[t].ivar < Len(incvars)
              THEN tl'[t].pc = "read_inc" /\ tl'[t].ivar = tl[t].ivar + 1
              ELSE tl'[t].pc = "exit_rst"

C6_Ends ==
    /\ raised \notin {"AttributeError", "RuntimeError"}
    /\ \A t \in Tiles :
         (tl[t].pc = "done" /\ Distinct(incvars)) => \A v \in Named : Summed(t, v)
    /\ \A t \in Tiles :
         (tl[t].pc = "done" /\ t = itile /\ t < NTiles) => ENABLED ForTile

\* C6 (checksum removal tolerance): when the checksum of a named variable
\* is absent or cannot be deleted, the delncattr step raises nothing and
\* changes no file, the variable keeps the sum just written, the loop goes
\* on with the next name (or leaves the tile without an exception), the
\* tile ends with every named variable summed, and the next tile is taken.
C6_ChecksumTolerance == []C6_Ends /\ [][C6_Step]_vars

C6_Witness ==
    /\ status = "returned"
    /\ Len(incvars) = 2
    /\ \E t \in Tiles : \E v \in Named : "checksum" \notin fs0[BkgPath(t)].vars[v].attrs
    /\ \E t \in Tiles : \E v \in Named :
         ~delok /\ "checksum" \in fs[BkgPath(t)].vars[v].attrs

\* C7 (scoped release): the open handles all belong to the tile the loop
\* is at, at most its increment/background pair; nothing is open when a
\* tile is entered, when a tile is left, or when the call has returned or
\* raised.
C7_ScopedRelease ==
    /\ \A h \in opened : h.tile = itile
    /\ opened \subseteq {Handle(IncPath(itile), "r", itile),
                         Handle(BkgPath(itile), "a", itile)}
    /\ \A t \in Tiles : tl[t].pc \in {"idle", "open_inc", "done", "failed"} =>
         \A h \in opened : h.tile # t
    /\ (\E t \in Tiles : tl[t].pc = "open_inc") => opened = {}
    /\ Finished => opened = {}

C7_Witness ==
    /\ status = "raised"
    /\ raised = "KeyError"
    /\ itile = NTiles
    /\ tl[itile].ivar = 2
    /\ Count("write", itile) = 1
    /\ Count("close_rst", itile) = 1
    /\ Count("close_inc", itile) = 1

\* the files of tile t that the call needs
FilesExist(t) == fs0[IncPath(t)].exists /\ fs0[BkgPath(t)].exists

\* C8 (partial completion on a missing file): a tile whose increment or
\* background file is missing fails with the file error at its open, after
\* one attempt per file; the call then raises at that tile k with the
\* backgrounds of tiles 1..k-1 updated and kept, and those of tiles
\* k..ntiles as before the call; a call only returns when no file was
\* missing.
C8_MissingFile ==
    /\ \A t \in Tiles :
         (~FilesExist(t) /\ tl[t].pc \notin {"idle", "open_inc", "open_rst"})
         => /\ tl[t].exc = "FileNotFoundError"
            /\ tl[t].ivar = 0
    /\ \A t \in Tiles : Count("open_inc", t) <= 1 /\ Count("open_rst", t) <= 1
    /\ status = "returned" => \A t \in Tiles : FilesExist(t)
    /\ (status = "raised" /\ raised = "FileNotFoundError")
       => /\ ~FilesExist(itile)
          /\ \A t \in 1..(itile - 1) :
               Distinct(incvars) => \A v \in Named : Summed(t, v)
          /\ \A t \in itile..NTiles : fs[BkgPath(t)] = fs0[BkgPath(t)]

C8_Witness ==
    /\ status = "raised"
    /\ raised = "FileNotFoundError"
    /\ itile = 2
    /\ Distinct(incvars)
    /\ fs[BkgPath(1)] # fs0[BkgPath(1)]

\* the i-th name is in both files of tile t
VarInBoth(t, i) ==
    /\ fs0[IncPath(t)].vars[incvars[i]].present
    /\ fs0[BkgPath(t)].vars[incvars[i]].present

\* C9 (missing variable): with distinct names, a call that raises KeyError
\* stopped in tile k at a name i that the increment file or the background
\* file lacks; the names before i are summed in tile k, the i-th and later
\* ones are as before the call, and no later tile is touched; a call only
\* returns when every name was in both files of every tile.
C9_MissingVariable ==
    /\ status = "returned" =>
         \A t \in Tiles : \A i \in DOMAIN incvars : VarInBoth(t, i)
    /\ (status = "raised" /\ raised = "KeyError" /\ Distinct(incvars))
       => LET k == itile
              i == tl[itile].ivar IN
          /\ i \in DOMAIN incvars
          /\ ~VarInBoth(k, i)
          /\ \A j \in 1..(i - 1) : Summed(k, incvars[j])
          /\ \A j \in i..Len(incvars) :
               fs[BkgPath(k)].vars[incvars[j]] = fs0[BkgPath(k)].vars[incvars[j]]
          /\ \A t \in (k + 1)..NTiles : fs[BkgPath(t)] = fs0[BkgPath(t)]

C9_Witness ==
    /\ status = "raised"
    /\ raised = "KeyError"
    /\ Distinct(incvars)
    /\ tl[itile].ivar = 2
    /\ itile < NTiles
    /\ fs[BkgPath(itile)].vars[incvars[1]] # fs0[BkgPath(itile)].vars[incvars[1]]

\* C10 (shape mismatch is fatal and write-free): a named variable is only
\* written when its increment array and its background array have the same
\* shape, and a call only returns when that was so for every named
\* variable of every tile.
SameShape(t, v) ==
    Len(fs0[IncPath(t)].vars[v].data) = Len(fs0[BkgPath(t)].vars[v].data)

C10_ShapeMismatchFatal ==
    /\ \A t \in Tiles : \A k \in DOMAIN log[t] :
         log[t][k].op = "write" => SameShape(t, log[t][k].var)
    /\ status = "returned" => \A t \in Tiles : \A v \in Named : SameShape(t, v)

---------------------------------------------------------------------------
(* The loop body run for the tiles in any order and interleaved: a tile    *)
(* may be entered whenever it has not been, and the steps of the tiles     *)
(* that are under way alternate freely.                                    *)

ParTile(t) ==
    /\ status = "running"
    /\ tl[t].pc = "idle"
    /\ EnterTile(t)
    /\ shuffled' = (shuffled \/ \E u \in Tiles : u > t /\ tl[u].pc \notin {"idle", "done"})
    /\ UNCHANGED <<fs, fs0, fsOrig, DOIAU, incvars, inc_file_tmpl,
                   bkg_file_tmpl, delok, itile, opened, status, raised,
                   ncalls, log, jobvars>>

InitPar == InitWith({TRUE}, BenignFaults, {{"a", "c"}})

NextPar ==
    \/ \E t \in Tiles : ParTile(t)
    \/ \E t \in Tiles : Body(t)
    \/ Return

SpecPar == InitPar /\ [][NextPar]_vars

(* The result of lines 260-272 run to the end, tile after tile in          *)
(* ascending order and name after name, on files that make no step fail.   *)

RECURSIVE SeqVars(_, _, _)
SeqVars(f, t, i) ==
    IF i > Len(incvars) THEN f
    ELSE LET name == incvars[i]
             path == Format(bkg_file_tmpl, t)
             increment == f[Format(inc_file_tmpl, t)].vars[name].data
             bkg == f[path].vars[name].data
             written == SetItem(f[path].vars[name], Anl(bkg, increment))
             cleaned == IF "checksum" \in written.attrs /\ delok
                        THEN DelNcAttr(written, "checksum") ELSE written
         IN SeqVars([f EXCEPT ![path].vars[name] = cleaned], t, i + 1)

RECURSIVE SeqTiles(_, _)
SeqTiles(f, t) ==
    IF t > NTiles THEN f ELSE SeqTiles(SeqVars(f, t, 1), t + 1)

\* C5 (tile independence): when the tiles are processed in any order, their
\* steps interleaved, and every tile succeeds, the files end as the
\* sequential pass in ascending tile number leaves them.
C5_TileIndependence ==
    status = "returned" => fs = SeqTiles(fs0, 1)

C5_Witness ==
    /\ status = "returned"
    /\ shuffled
    /\ fs # fs0
    /\ \A t \in Tiles : Count("write", t) = 2

---------------------------------------------------------------------------
(* The result of lines 260-272 for a list of names given as an argument *)

RECURSIVE SeqVarsOf(_, _, _, _)
SeqVarsOf(f, t, names, i) ==
    IF i > Len(names) THEN f
    ELSE LET name == names[i]
             path == Format(bkg_file_tmpl, t)
             increment == f[Format(inc_file_tmpl, t)].vars[name].data
             bkg == f[path].vars[name].data
             written == SetItem(f[path].vars[name], Anl(bkg, increment))
             cleaned == IF "checksum" \in written.attrs /\ delok
                        THEN DelNcAttr(written, "checksum") ELSE written
         IN SeqVarsOf([f EXCEPT ![path].vars[name] = cleaned], t, names, i + 1)

RECURSIVE SeqTilesOf(_, _, _)
SeqTilesOf(f, t, names) ==
    IF t > NTiles THEN f ELSE SeqTilesOf(SeqVarsOf(f, t, names, 1), t + 1, names)

\* the rearrangements of a list
Perms(seq) ==
    {[i \in DOMAIN seq |-> seq[g[i]]] :
        g \in {h \in [DOMAIN seq -> DOMAIN seq] :
                 \A i, j \in DOMAIN seq : i # j => h[i] # h[j]}}

C11_Perm ==
    (status = "returned" /\ Distinct(incvars)) =>
        \A p \in Perms(incvars) : fs = SeqTilesOf(fs0, 1, p)

C11_Step ==
    /\ \A t \in Tiles :
         /\ (tl[t].pc = "read_inc" /\ tl'[t].pc = "read_bkg")
            => tl'[t].increment = fs[IncPath(t)].vars[vname(tl[t])].data
         /\ (tl[t].pc = "read_bkg" /\ tl'[t].pc = "add")
            => tl'[t].bkg = fs[BkgPath(t)].vars[vname(tl[t])].data
    /\ fs' # fs =>
         \E t \in Tiles :
            /\ tl[t].pc \in {"write", "delattr"}
            /\ \A p \in Paths : \A v \in VarNames :
                 fs'[p].vars[v] # fs[p].vars[v] => p = BkgPath(t) /\ v = vname(tl[t])

\* C11 (variable-order independence): a call that returns with distinct
\* names leaves the files that any rearrangement of the list would leave,
\* contents and attributes; each read takes the variable of the current
\* name and each change of a file is to that variable alone.
C11_VariableOrder == []C11_Perm /\ [][C11_Step]_vars

C11_Witness ==
    /\ status = "returned"
    /\ incvars = <<"b", "a">>
    /\ fs # fs0
    /\ fs = SeqTilesOf(fs0, 1, <<"a", "b">>)

---------------------------------------------------------------------------
AttrsOf(f, t, v) == f[BkgPath(t)].vars[v].attrs

---------------------------------------------------------------------------
StepOps == <<"read_inc", "read_bkg", "add", "write", "delattr">>

\* what a tile's log reads after a full pass over the names
ExpectedLog(t) ==
    [k \in 1..(4 + 5 * Len(incvars)) |->
       IF k = 1 THEN Ev("open_inc", t, "")
       ELSE IF k = 2 THEN Ev("open_rst", t, "")
       ELSE IF k = 3 + 5 * Len(incvars) THEN Ev("close_rst", t, "")
       ELSE IF k = 4 + 5 * Len(incvars) THEN Ev("close_inc", t, "")
       ELSE Ev(StepOps[((k - 3) % 5) + 1], t, incvars[((k - 3) \div 5) + 1])]

C17_Inv ==
    /\ \A t \in Tiles : tl[t].pc # "idle" =>
         /\ t <= itile
         /\ \A u \in 1..(t - 1) : tl[u].pc = "done"
         /\ tl[t].inc_path = [pre |-> inc_file_tmpl.pre, time |-> inc_file_tmpl.time, tile |-> t]
         /\ tl[t].bkg_path = [pre |-> bkg_file_tmpl.pre, time |-> bkg_file_tmpl.time, tile |-> t]
    /\ status = "returned" => \A t \in Tiles : log[t] = ExpectedLog(t)

C17_Step ==
    itile' # itile => \/ itile' = itile + 1
                      \/ status = "returned" /\ itile' = 0

\* C17 (iteration coverage and order): tiles are entered in ascending
\* order, each after the one before is done, with both paths formatted
\* with the tile's own number; a call that returns has, for each tile 1..
\* ntiles, opened both files once, then for each entry of incvars in list
\* order read the increment, read the background, summed, written and
\* removed the checksum, once each, and then closed both files.
C17_IterationOrder == []C17_Inv /\ [][C17_Step]_vars

C17_Witness ==
    /\ status = "returned"
    /\ ncalls = 1
    /\ itile = NTiles
    /\ \A t \in Tiles : Len(log[t]) = 14

---------------------------------------------------------------------------
\* C20 (acquisition order in a tile): the increment file is opened before
\* the background file; when tile k's increment file is missing its
\* background file is never opened and stays as it was; when the increment
\* file opens and the background file does not, the increment file is
\* closed before the error leaves the call.
C20_AcquisitionOrder ==
    /\ \A t \in Tiles : \A k \in DOMAIN log[t] :
         log[t][k].op = "open_rst" => k = 2 /\ log[t][1].op = "open_inc"
    /\ \A h \in opened : h.mode = "a" =>
         \E g \in opened : g.mode = "r" /\ g.tile = h.tile
    /\ \A t \in Tiles : ~fs0[IncPath(t)].exists =>
         /\ Count("open_rst", t) = 0
         /\ fs[BkgPath(t)] = fs0[BkgPath(t)]
         /\ \A h \in opened : h.tile # t
    /\ \A t \in Tiles :
         (fs0[IncPath(t)].exists /\ ~fs0[BkgPath(t)].exists /\ tl[t].pc = "failed")
         => /\ log[t] = <<Ev("open_inc", t, ""), Ev("open_rst", t, ""), Ev("close_inc", t, "")>>
            /\ opened = {}
    /\ status = "raised" => opened = {}

C20_Witness ==
    /\ status = "raised"
    /\ raised = "FileNotFoundError"
    /\ fs0[IncPath(itile)].exists
    /\ ~fs0[BkgPath(itile)].exists
    /\ Count("close_inc", itile) = 1

---------------------------------------------------------------------------
(* AerosolAnalysis.finalize (aero_analysis.py lines 182-223) and the script *)
(* exglobal_aero_analysis_post.py that drives the task                     *)

\* the diag*nc4 files DATA/diags may hold
Diags == 1..MaxDiags

GzOf(d) == [diag |-> d, ext |-> "gz"]

\* the methods an AerosolAnalysis object has: its own and those of Task
AerosolAnalysisMethods ==
    {"__init__", "initialize_jedi", "initialize_analysis", "execute",
     "finalize", "clean", "_add_fms_cube_sphere_increments",
     "add_fv3_increments"}

TaskMethods == {"initialize", "configure", "execute", "finalize", "clean"}

\* what a driver script invokes on the task: line 24 of the post script,
\* or the method itself by name
ScriptCalls == {"postProcess", "finalize"}

\* the files AERO_FINALIZE_VARIATIONAL_TMPL lists for COM: the RESTART
\* files and the increment files of every tile
FinalizeCopyList == {BkgPath(t) : t \in Tiles} \cup {IncPath(t) : t \in Tiles}

InitFin ==
    /\ InitCall(BOOLEAN, Faults, {{"a", "c"}}, "idle")
    /\ \E d \in SUBSET Diags : fin = [FinIdle EXCEPT !.datadiags = d]
    /\ \E m \in ScriptCalls : post = [PostIdle EXCEPT !.method = m]
    /\ bmat = BmatIdle
    /\ snow = SnowIdle
    /\ ims = ImsIdle

\* line 23: AeroAnl = AerosolAnalysis(config)
PostConstruct ==
    /\ post.pc = "idle"
    /\ post' = [post EXCEPT !.pc = "constructed"]
    /\ UNCHANGED <<addvars, fin, bmat, snow, ims>>

\* line 24: the attribute is looked up on the object and called
PostInvoke ==
    /\ post.pc = "constructed"
    /\ IF post.method \in AerosolAnalysisMethods \cup TaskMethods
       THEN /\ post' = [post EXCEPT !.pc = "called"]
            /\ fin' = [fin EXCEPT !.pc = "glob"]
       ELSE /\ post' = [post EXCEPT !.pc = "raised", !.exc = "AttributeError"]
            /\ UNCHANGED fin
    /\ UNCHANGED <<addvars, bmat, snow, ims>>

\* line 201: diags = glob.glob(...)
FinGlob ==
    /\ fin.pc = "glob"
    /\ fin' = [fin EXCEPT !.diags = fin.datadiags, !.pc = "gzip"]
    /\ UNCHANGED <<addvars, post, bmat, snow, ims>>

\* lines 204-207: one pass of the gzip loop, or its end
FinGzip ==
    /\ fin.pc = "gzip"
    /\ IF fin.diags \ fin.gz # {}
       THEN \E d \in fin.diags \ fin.gz :
               fin' = [fin EXCEPT !.gz = @ \cup {d}]
       ELSE fin' = [fin EXCEPT !.pc = "add_increments"]
    /\ UNCHANGED <<addvars, post, bmat, snow, ims>>

\* the copy to COM comes first
FinCallAddSkipped ==
    /\ fin.pc = "add_increments"
    /\ status = "idle"
    /\ fin' = [fin EXCEPT !.pc = "sync"]
    /\ UNCHANGED <<addvars, post, bmat, snow, ims>>

\* line 211 and line 244: the call of add_fv3_increments
FinCallAdd ==
    /\ fin.pc = "add_increments"
    /\ status = "idle"
    /\ status' = "running"
    /\ UNCHANGED <<fs, fs0, fsOrig, DOIAU, incvars, inc_file_tmpl,
                   bkg_file_tmpl, delok, itile, tl, opened, raised, ncalls, log,
                   shuffled, jobvars>>

\* the copy to COM is made although the call raised
FinAddEndsIgnoreRaise ==
    /\ fin.pc = "add_increments"
    /\ status \in {"returned", "raised"}
    /\ fin' = [fin EXCEPT !.pc = "sync"]
    /\ post' = post
    /\ UNCHANGED <<addvars, bmat, snow, ims>>

\* line 211 ends: the call returned, or its exception leaves finalize and
\* the script
FinAddEnds ==
    /\ fin.pc = "add_increments"
    /\ status \in {"returned", "raised"}
    /\ IF status = "returned"
       THEN /\ fin' = [fin EXCEPT !.pc = "sync"]
            /\ post' = post
       ELSE /\ fin' = [fin EXCEPT !.pc = "raised", !.exc = raised]
            /\ post' = [post EXCEPT !.pc = "raised", !.exc = raised]
    /\ UNCHANGED <<addvars, bmat, snow, ims>>

\* lines 215-216: FileHandler(aero_var_final_list).sync()
FinSync ==
    /\ fin.pc = "sync"
    /\ fin' = [fin EXCEPT
                 !.com = [p \in Paths |->
                            IF p \in FinalizeCopyList THEN fs[p] ELSE @[p]],
                 !.pc = "tar"]
    /\ UNCHANGED <<addvars, post, bmat, snow, ims>>

\* lines 219-222: the tar file gets the .gz of every entry of diags
FinTar ==
    /\ fin.pc = "tar"
    /\ fin' = [fin EXCEPT
                 !.aerostat = [exists |-> TRUE,
                               members |-> {GzOf(d) : d \in fin.diags}],
                 !.pc = "done"]
    /\ post' = [post EXCEPT !.pc = "done"]
    /\ UNCHANGED <<addvars, bmat, snow, ims>>

NextFin ==
    \/ PostConstruct
    \/ PostInvoke
    \/ FinGlob
    \/ FinGzip
    \/ FinCallAdd
    \/ ForTile
    \/ \E t \in Tiles : Body(t)
    \/ \E t \in Tiles : Raise(t)
    \/ Return
    \/ FinAddEnds
    \/ FinSync
    \/ FinTar

SpecFin == InitFin /\ [][NextFin]_vars

CopiedToCom == {p \in Paths : fin.com[p].exists}

\* C12 (caller consequence of failure): when add_fv3_increments raises
\* during finalize, the error leaves finalize, nothing is ever copied to
\* COM by the file-staging step and the aerostat tar file is not created.
C12_FailurePropagates ==
    status = "raised" =>
        /\ fin.pc \in {"add_increments", "raised"}
        /\ fin.pc = "add_increments" => ENABLED FinAddEnds
        /\ fin.pc = "raised" => fin.exc = raised /\ post.pc = "raised" /\ post.exc = raised
        /\ ~ENABLED FinSync
        /\ ~ENABLED FinTar
        /\ CopiedToCom = {}
        /\ ~fin.aerostat.exists

C12_Witness ==
    /\ fin.pc = "raised"
    /\ fin.exc = "KeyError"
    /\ fin.gz = Diags
    /\ fs # fs0

---------------------------------------------------------------------------
\* the order of the stages of finalize
FinOrder == <<"idle", "glob", "gzip", "add_increments", "sync", "tar", "done">>

FinRank(pc) == CHOOSE k \in DOMAIN FinOrder : FinOrder[k] = pc

C13_Inv ==
    /\ status # "idle" =>
         fin.diags = fin.datadiags /\ fin.gz = fin.diags
    /\ CopiedToCom # {} =>
         /\ status = "returned"
         /\ \A t \in Tiles : tl[t].pc = "done" /\ Count("write", t) = Len(incvars)
         /\ ~ENABLED FinCallAdd
    /\ \A t \in Tiles : fin.com[BkgPath(t)].exists =>
         /\ fin.com[BkgPath(t)] = SeqTiles(fsOrig, 1)[BkgPath(t)]
         /\ Distinct(incvars) => \A v \in Named :
              PlusTimes(fsOrig[BkgPath(t)].vars[v].data,
                        fsOrig[IncPath(t)].vars[v].data, 1,
                        fin.com[BkgPath(t)].vars[v].data)
    /\ fin.aerostat.exists =>
         /\ \A t \in Tiles : fin.com[BkgPath(t)].exists
         /\ fin.aerostat.members = {GzOf(d) : d \in fin.datadiags}
         /\ Cardinality(fin.aerostat.members) = Cardinality(fin.datadiags)

C13_Step ==
    (fin'.pc # fin.pc /\ fin'.pc # "raised") =>
        FinRank(fin'.pc) = FinRank(fin.pc) + 1

\* C13 (ordering inside finalize): every diag file is gzipped before the
\* increments are applied, the increments are applied to all tiles before
\* anything is copied to COM, and the tar file is written after the copy;
\* the RESTART files in COM hold background plus increment, and the tar
\* file has exactly one .gz member per diag file found at the start.
C13_FinalizeOrder == []C13_Inv /\ [][C13_Step]_vars

C13_Witness ==
    /\ fin.pc = "done"
    /\ fin.datadiags = Diags
    /\ Cardinality(fin.aerostat.members) = MaxDiags
    /\ incvars = <<"a", "b">>
    /\ \A t \in Tiles : fin.com[BkgPath(t)] # fsOrig[BkgPath(t)]

\* C15 (post script drives the task): the method the post script invokes
\* on the AerosolAnalysis object is one the object provides, so the
\* invocation does not fail.
C15_PostProcessProvided ==
    post.method = "postProcess" => post.pc # "raised"

---------------------------------------------------------------------------
(* exgdas_aero_analysis_generate_bmatrix.py, lines 19-42, over the methods *)
(* of AerosolBMatrix (aero_bmatrix.py)                                     *)

Stmt(l, op, task, arg) == [line |-> l, op |-> op, task |-> task, arg |-> arg]

\* initialize_genb is called after the executables
BmatScriptGenbLate ==
    <<Stmt(23, "set_exe", "", "gdas.x"),
      Stmt(24, "construct", "aero_convertstate", ""),
      Stmt(25, "initialize_jedi", "aero_convertstate", "aero_convert_background"),
      Stmt(26, "set_exe", "", "gdas_fv3jedi_error_covariance_toolbox.x"),
      Stmt(27, "construct", "aero_diffusion", ""),
      Stmt(28, "initialize_jedi", "aero_diffusion", "aero_gen_bmatrix_diffusion"),
      Stmt(29, "set_exe", "", "gdasapp_chem_diagb.x"),
      Stmt(30, "construct", "aero_diagb", ""),
      Stmt(31, "initialize_jedi", "aero_diagb", "aero_gen_bmatrix_diagb"),
      Stmt(37, "execute", "aero_convertstate", "fv3jedi convertstate"),
      Stmt(38, "execute", "aero_diffusion", ""),
      Stmt(39, "execute", "aero_diagb", ""),
      Stmt(34, "initialize_genb", "aero_diagb", ""),
      Stmt(42, "finalize", "aero_diagb", "")>>

\* the statements of the script in order
BmatScript ==
    <<Stmt(23, "set_exe", "", "gdas.x"),
      Stmt(24, "construct", "aero_convertstate", ""),
      Stmt(25, "initialize_jedi", "aero_convertstate", "aero_convert_background"),
      Stmt(26, "set_exe", "", "gdas_fv3jedi_error_covariance_toolbox.x"),
      Stmt(27, "construct", "aero_diffusion", ""),
      Stmt(28, "initialize_jedi", "aero_diffusion", "aero_gen_bmatrix_diffusion"),
      Stmt(29, "set_exe", "", "gdasapp_chem_diagb.x"),
      Stmt(30, "construct", "aero_diagb", ""),
      Stmt(31, "initialize_jedi", "aero_diagb", "aero_gen_bmatrix_diagb"),
      Stmt(34, "initialize_genb", "aero_diagb", ""),
      Stmt(37, "execute", "aero_convertstate", "fv3jedi convertstate"),
      Stmt(38, "execute", "aero_diffusion", ""),
      Stmt(39, "execute", "aero_diagb", ""),
      Stmt(42, "finalize", "aero_diagb", "")>>

\* what a statement can raise
BmatExc(op) ==
    IF op = "set_exe" THEN {"KeyError"}
    ELSE IF op = "execute" THEN {"OSError", "WorkflowException"}
    ELSE IF op = "initialize_jedi" THEN {"KeyError", "OSError"}
    ELSE {"FileNotFoundError", "OSError"}

\* the statement that fails (0: none) and what it raises
InitBmat ==
    /\ InitCall({FALSE}, {NoFault}, {{}}, "idle")
    /\ delok
    /\ incvars = <<"a">>
    /\ fin = FinIdle
    /\ post = PostIdle
    /\ snow = SnowIdle
    /\ ims = ImsIdle
    /\ \E f \in 0..Len(BmatScript) :
       \E x \in IF f = 0 THEN {"none"} ELSE BmatExc(BmatScript[f].op) :
          bmat = [BmatIdle EXCEPT !.fail = f, !.exc = x]

BmatRunning == bmat.pc \in DOMAIN BmatScript

BmatAt(op) == BmatRunning /\ BmatScript[bmat.pc].op = op

BmatCall(b, st) == [op |-> st.op, task |-> st.task, exe |-> b.tasks[st.task].exe]

\* the statement at pc is entered; it raises, which ends the script, or has
\* the effect r on the job
BmatDo(r) ==
    LET st == BmatScript[bmat.pc]
        entered == IF st.op = "set_exe" THEN r
                   ELSE [r EXCEPT !.calls = Append(@, BmatCall(r, st))]
    IN IF bmat.fail = bmat.pc
       THEN bmat' = [bmat EXCEPT !.calls = entered.calls,
                                 !.pc = Len(BmatScript) + 2]
       ELSE bmat' = [entered EXCEPT !.pc = bmat.pc + 1]

\* line 19: the configuration is read from the environment
BmatStart ==
    /\ bmat.pc = 0
    /\ bmat' = [bmat EXCEPT !.pc = 1]
    /\ UNCHANGED <<addvars, fin, post, snow, ims>>

\* lines 23, 26, 29: config['JEDIEXE'] = ...
BmatSetExe ==
    /\ BmatAt("set_exe")
    /\ BmatDo([bmat EXCEPT !.JEDIEXE = BmatScript[bmat.pc].arg])
    /\ UNCHANGED <<addvars, fin, post, snow, ims>>

\* lines 24, 27, 30: AerosolBMatrix(config, yaml_name) keeps the
\* configuration as it is now (aero_bmatrix.py lines 41-72)
BmatConstruct ==
    /\ BmatAt("construct")
    /\ BmatDo([bmat EXCEPT !.tasks[BmatScript[bmat.pc].task] =
                 [NoTask EXCEPT !.built = TRUE, !.JEDIEXE = bmat.JEDIEXE]])
    /\ UNCHANGED <<addvars, fin, post, snow, ims>>

\* lines 25, 28, 31: initialize_jedi (aero_bmatrix.py lines 94-103) sets
\* the config, saves the YAML and links the task's executable
BmatInitializeJedi ==
    /\ BmatAt("initialize_jedi")
    /\ bmat.tasks[BmatScript[bmat.pc].task].built
    /\ BmatDo([bmat EXCEPT !.tasks[BmatScript[bmat.pc].task] =
                 [@ EXCEPT !.algorithm = BmatScript[bmat.pc].arg,
                           !.yaml = TRUE,
                           !.exe = bmat.tasks[BmatScript[bmat.pc].task].JEDIEXE]])
    /\ UNCHANGED <<addvars, fin, post, snow, ims>>

\* line 34: initialize_genb (aero_bmatrix.py lines 116-122)
BmatInitializeGenb ==
    /\ BmatAt("initialize_genb")
    /\ bmat.tasks[BmatScript[bmat.pc].task].built
    /\ BmatDo(bmat)
    /\ UNCHANGED <<addvars, fin, post, snow, ims>>

\* lines 37-39: execute (aero_bmatrix.py line 147) runs the linked
\* executable
BmatExecute ==
    /\ BmatAt("execute")
    /\ bmat.tasks[BmatScript[bmat.pc].task].built
    /\ BmatDo(bmat)
    /\ UNCHANGED <<addvars, fin, post, snow, ims>>

\* line 42: finalize (aero_bmatrix.py lines 161-162)
BmatFinalize ==
    /\ BmatAt("finalize")
    /\ bmat.tasks[BmatScript[bmat.pc].task].built
    /\ BmatDo(bmat)
    /\ UNCHANGED <<addvars, fin, post, snow, ims>>

NextBmat ==
    \/ BmatStart
    \/ BmatSetExe
    \/ BmatConstruct
    \/ BmatInitializeJedi
    \/ BmatInitializeGenb
    \/ BmatExecute
    \/ BmatFinalize

SpecBmat == InitBmat /\ [][NextBmat]_vars

BmatDone == bmat.pc = Len(BmatScript) + 1

BmatRaised == bmat.pc = Len(BmatScript) + 2

\* the positions of the calls of a method
CallsOf(op) == {k \in DOMAIN bmat.calls : bmat.calls[k].op = op}

ExeOf(task) ==
    IF task = "aero_convertstate" THEN "gdas.x"
    ELSE IF task = "aero_diffusion" THEN "gdas_fv3jedi_error_covariance_toolbox.x"
    ELSE "gdasapp_chem_diagb.x"

ExecOrder == <<"aero_convertstate", "aero_diffusion", "aero_diagb">>

\* the tasks executed so far, in order
Executed == [k \in 1..Cardinality(CallsOf("execute")) |->
               bmat.calls[CHOOSE j \in CallsOf("execute") :
                  Cardinality({i \in CallsOf("execute") : i <= j}) = k].task]

\* C14 (B-matrix job order): three AerosolBMatrix tasks are built, each
\* initialised by initialize_jedi once; initialize_genb runs exactly once
\* and before any executable; the executables run strictly in the order
\* convertstate, diffusion, diagb, each task with the executable set for
\* it; finalize runs exactly once and after all three; when an executable
\* raises, no later executable and no finalize runs.
C14_BmatrixOrder ==
    /\ \A n \in BmatTasks :
         /\ Cardinality({k \in CallsOf("construct") : bmat.calls[k].task = n}) <= 1
         /\ Cardinality({k \in CallsOf("initialize_jedi") : bmat.calls[k].task = n}) <= 1
         /\ \A k \in CallsOf("initialize_jedi") : bmat.calls[k].task = n =>
              \E j \in CallsOf("construct") : j < k /\ bmat.calls[j].task = n
    /\ Cardinality(CallsOf("initialize_genb")) <= 1
    /\ Cardinality(CallsOf("finalize")) <= 1
    /\ \A k \in CallsOf("execute") :
         /\ \E j \in CallsOf("initialize_genb") : j < k
         /\ \A n \in BmatTasks : \E j \in CallsOf("initialize_jedi") :
              j < k /\ bmat.calls[j].task = n
         /\ bmat.calls[k].exe = ExeOf(bmat.calls[k].task)
    /\ Executed = SubSeq(ExecOrder, 1, Len(Executed))
    /\ \A k \in CallsOf("finalize") :
         /\ Len(Executed) = 3
         /\ \A j \in CallsOf("execute") : j < k
    /\ BmatDone =>
         /\ \A n \in BmatTasks :
              /\ Cardinality({k \in CallsOf("construct") : bmat.calls[k].task = n}) = 1
              /\ Cardinality({k \in CallsOf("initialize_jedi") : bmat.calls[k].task = n}) = 1
         /\ Cardinality(CallsOf("initialize_genb")) = 1
         /\ Executed = ExecOrder
         /\ Cardinality(CallsOf("finalize")) = 1
    /\ (BmatRaised /\ BmatScript[bmat.fail].op = "execute") =>
         /\ bmat.calls[Len(bmat.calls)].op = "execute"
         /\ bmat.calls[Len(bmat.calls)].task = BmatScript[bmat.fail].task
         /\ CallsOf("finalize") = {}
         /\ ~ENABLED NextBmat

C14_Witness ==
    /\ BmatRaised
    /\ BmatScript[bmat.fail].op = "execute"
    /\ bmat.exc = "WorkflowException"
    /\ Executed = <<"aero_convertstate", "aero_diffusion">>

---------------------------------------------------------------------------
(* exglobal_snow_analysis.py, lines 18-34, and SnowAnalysis.add_increments *)
(* (snow_analysis.py lines 375-449)                                        *)

\* window begin first, only when DOIAU is not set
SnowBkgtimesSwapped(doiau) ==
    IF doiau THEN <<"current_cycle">> ELSE <<"window_begin", "current_cycle">>

\* lines 386-390: bkgtimes
SnowBkgtimes(doiau) ==
    IF doiau THEN <<"window_begin", "current_cycle">> ELSE <<"current_cycle">>

AnlFile(kind, time, tile) == [kind |-> kind, time |-> time, tile |-> tile]

\* lines 391-398: anllist, background time by background time, tile by tile
AnlList(bkgtimes) ==
    [i \in 1..(Len(bkgtimes) * NTiles) |->
       AnlFile("sfc_data", bkgtimes[((i - 1) \div NTiles) + 1], ((i - 1) % NTiles) + 1)]

\* lines 402-411: inclist, the destinations tile by tile
IncList == [i \in 1..NTiles |-> AnlFile("snowinc", "window_begin", i)]

\* FileHandler.sync on a list whose entry k cannot be copied (0: none)
Synced(list, k) ==
    {list[i] : i \in 1..(IF k = 0 THEN Len(list) ELSE k - 1)}

SnowScriptOps == <<"construct", "initialize_jedi", "initialize_analysis",
                   "execute", "add_increments", "finalize">>

\* where the job can fail, and with what
SnowFails(doiau) ==
    {NoFail}
    \cup [at : {"construct", "initialize_jedi", "initialize_analysis", "finalize"},
          k : {0}, exc : {"KeyError"}]
    \cup [at : {"execute"}, k : {0}, exc : {"OSError", "WorkflowException"}]
    \cup [at : {"copy_bkg"}, k : DOMAIN AnlList(SnowBkgtimes(doiau)),
          exc : {"FileNotFoundError"}]
    \cup (IF doiau THEN [at : {"copy_inc"}, k : DOMAIN IncList,
                         exc : {"FileNotFoundError"}] ELSE {})
    \cup [at : {"namelist", "link"}, k : DOMAIN SnowBkgtimes(doiau), exc : {"OSError"}]
    \cup [at : {"run"}, k : DOMAIN SnowBkgtimes(doiau), exc : {"OSError", "Exception"}]

InitSnow ==
    /\ InitCall(BOOLEAN, {NoFault}, {{}}, "idle")
    /\ delok
    /\ incvars = <<"a">>
    /\ fin = FinIdle
    /\ post = PostIdle
    /\ bmat = BmatIdle
    /\ ims = ImsIdle
    /\ \E f \in SnowFails(DOIAU) : snow = [SnowIdle EXCEPT !.fail = f]

SnowFailsAt(at, k) == snow.fail.at = at /\ snow.fail.k = k

SnowRaise(r, exc) == [r EXCEPT !.pc = "raised", !.exc = exc]

\* a statement of the script: the method is entered, and raises or returns
SnowCall(op, next) ==
    /\ snow.pc = op
    /\ LET entered == [snow EXCEPT !.calls = Append(@, op)] IN
       IF SnowFailsAt(op, 0)
       THEN snow' = SnowRaise(entered, snow.fail.exc)
       ELSE snow' = [entered EXCEPT !.pc = next]
    /\ UNCHANGED <<addvars, fin, post, bmat, ims>>

\* line 18
SnowStart ==
    /\ snow.pc = "idle"
    /\ snow' = [snow EXCEPT !.pc = "construct"]
    /\ UNCHANGED <<addvars, fin, post, bmat, ims>>

\* line 21
SnowConstruct == SnowCall("construct", "initialize_jedi")

\* line 24
SnowInitializeJedi == SnowCall("initialize_jedi", "initialize_analysis")

\* line 25
SnowInitializeAnalysis == SnowCall("initialize_analysis", "execute")

\* line 28: the analysis leaves the current-cycle increments in anl/
SnowExecute ==
    /\ snow.pc = "execute"
    /\ LET entered == [snow EXCEPT !.calls = Append(@, "execute")] IN
       IF SnowFailsAt("execute", 0)
       THEN snow' = SnowRaise(entered, snow.fail.exc)
       ELSE snow' = [entered EXCEPT
                       !.anl = @ \cup {AnlFile("snowinc", "current_cycle", t) : t \in Tiles},
                       !.pc = "add_increments"]
    /\ UNCHANGED <<addvars, fin, post, bmat, ims>>

\* line 31 and lines 386-390
SnowAddIncrements ==
    /\ snow.pc = "add_increments"
    /\ snow' = [snow EXCEPT !.calls = Append(@, "add_increments"),
                            !.bkgtimes = SnowBkgtimes(DOIAU),
                            !.pc = "copy_bkg"]
    /\ UNCHANGED <<addvars, fin, post, bmat, ims>>

\* lines 391-399
AddIncCopyBkg ==
    /\ snow.pc = "copy_bkg"
    /\ LET k == IF snow.fail.at = "copy_bkg" THEN snow.fail.k ELSE 0
           copied == [snow EXCEPT !.anl = @ \cup Synced(AnlList(snow.bkgtimes), k),
                                  !.trace = Append(@, AnlFile("copy_bkg", "", 0))]
       IN IF k # 0
          THEN snow' = SnowRaise(copied, snow.fail.exc)
          ELSE snow' = [copied EXCEPT !.pc = "copy_inc"]
    /\ UNCHANGED <<addvars, fin, post, bmat, ims>>

\* lines 401-412
AddIncCopyInc ==
    /\ snow.pc = "copy_inc"
    /\ IF DOIAU
       THEN LET k == IF snow.fail.at = "copy_inc" THEN snow.fail.k ELSE 0
                copied == [snow EXCEPT !.anl = @ \cup Synced(IncList, k),
                                       !.trace = Append(@, AnlFile("copy_inc", "", 0))]
            IN IF k # 0
               THEN snow' = SnowRaise(copied, snow.fail.exc)
               ELSE snow' = [copied EXCEPT !.pc = "for_bkgtime"]
       ELSE snow' = [snow EXCEPT !.pc = "for_bkgtime"]
    /\ UNCHANGED <<addvars, fin, post, bmat, ims>>

\* line 415: the next background time, or the return to the script
AddIncForBkgtime ==
    /\ snow.pc = "for_bkgtime"
    /\ IF snow.k < Len(snow.bkgtimes)
       THEN snow' = [snow EXCEPT !.k = @ + 1, !.pc = "namelist"]
       ELSE snow' = [snow EXCEPT !.pc = "finalize"]
    /\ UNCHANGED <<addvars, fin, post, bmat, ims>>

\* lines 418-431
AddIncNamelist ==
    /\ snow.pc = "namelist"
    /\ IF SnowFailsAt("namelist", snow.k)
       THEN snow' = SnowRaise(snow, snow.fail.exc)
       ELSE snow' = [snow EXCEPT !.pc = "link"]
    /\ UNCHANGED <<addvars, fin, post, bmat, ims>>

\* lines 434-438
AddIncLink ==
    /\ snow.pc = "link"
    /\ IF SnowFailsAt("link", snow.k)
       THEN snow' = SnowRaise(snow, snow.fail.exc)
       ELSE snow' = [snow EXCEPT !.pc = "run"]
    /\ UNCHANGED <<addvars, fin, post, bmat, ims>>

\* lines 441-449: the executable is run; OSError stays OSError, any other
\* exception becomes WorkflowException
AddIncRun ==
    /\ snow.pc = "run"
    /\ LET ran == [snow EXCEPT
                     !.trace = Append(@, AnlFile("run", snow.bkgtimes[snow.k], 0))]
       IN IF SnowFailsAt("run", snow.k)
          THEN snow' = SnowRaise(ran, IF snow.fail.exc = "OSError" THEN "OSError"
                                      ELSE "WorkflowException")
          ELSE snow' = [ran EXCEPT !.pc = "for_bkgtime"]
    /\ UNCHANGED <<addvars, fin, post, bmat, ims>>

\* line 34
SnowFinalize == SnowCall("finalize", "done")

NextSnow ==
    \/ SnowStart
    \/ SnowConstruct
    \/ SnowInitializeJedi
    \/ SnowInitializeAnalysis
    \/ SnowExecute
    \/ SnowAddIncrements
    \/ AddIncCopyBkg
    \/ AddIncCopyInc
    \/ AddIncForBkgtime
    \/ AddIncNamelist
    \/ AddIncLink
    \/ AddIncRun
    \/ SnowFinalize

SpecSnow == InitSnow /\ [][NextSnow]_vars

IsPrefix(a, b) == Len(a) <= Len(b) /\ a = SubSeq(b, 1, Len(a))

\* the steps of add_increments in the claimed order
ExpectedSnowTrace ==
    <<AnlFile("copy_bkg", "", 0)>>
    \o (IF DOIAU THEN <<AnlFile("copy_inc", "", 0), AnlFile("run", "window_begin", 0)>>
        ELSE <<>>)
    \o <<AnlFile("run", "current_cycle", 0)>>

SnowRuns == {i \in DOMAIN snow.trace : snow.trace[i].kind = "run"}

\* C18 (order of add_increments): the backgrounds, ntiles files per
\* background time, are copied into anl/ first; then, only when DOIAU is
\* set, the current-cycle increments are copied to window-begin names; then
\* the executable is run once per background time, window begin then
\* current cycle when DOIAU is set and current cycle alone otherwise; a run
\* that fails raises and no later run is made; in the script
\* add_increments comes after execute and before finalize.
C18_AddIncrementsOrder ==
    /\ IsPrefix(snow.trace, ExpectedSnowTrace)
    /\ IsPrefix(snow.calls, SnowScriptOps)
    /\ SnowRuns # {} =>
         /\ \A time \in (IF DOIAU THEN Times ELSE {"current_cycle"}) :
              \A t \in Tiles : AnlFile("sfc_data", time, t) \in snow.anl
         /\ DOIAU => \A t \in Tiles : AnlFile("snowinc", "window_begin", t) \in snow.anl
    /\ ~DOIAU => \A f \in snow.anl : f.time = "current_cycle"
    /\ snow.pc = "done" => snow.trace = ExpectedSnowTrace /\ snow.calls = SnowScriptOps
    /\ (snow.pc = "raised" /\ snow.fail.at = "run") =>
         /\ Cardinality(SnowRuns) = snow.fail.k
         /\ snow.exc \in {"OSError", "WorkflowException"}
         /\ snow.calls = SubSeq(SnowScriptOps, 1, 5)
         /\ ~ENABLED NextSnow

C18_Witness ==
    /\ DOIAU
    /\ snow.pc = "raised"
    /\ snow.fail.at = "run"
    /\ snow.fail.k = 1
    /\ snow.exc = "WorkflowException"
    /\ Cardinality(snow.anl) = 4 * NTiles

---------------------------------------------------------------------------
(* SnowAnalysis.prepare_IMS (snow_analysis.py lines 172-268)               *)

SnowAnalysisMethods ==
    {"__init__", "initialize_jedi", "initialize_analysis", "prepare_IMS",
     "execute", "finalize", "add_increments"}

\* how a run of an executable ends
ExeOutcomes == {"ok", "OSError", "Exception"}

\* lines 232-235 and 256-259
ExeRaises(outcome) == IF outcome = "OSError" THEN "OSError" ELSE "WorkflowException"

InitIms ==
    /\ InitCall({FALSE}, {NoFault}, {{}}, "idle")
    /\ delok
    /\ incvars = <<"a">>
    /\ fin = FinIdle
    /\ post = PostIdle
    /\ bmat = BmatIdle
    /\ snow = SnowIdle
    /\ \E g \in BOOLEAN, c \in BOOLEAN, e1 \in ExeOutcomes, i \in BOOLEAN,
          e2 \in ExeOutcomes, w \in BOOLEAN, old \in {"none", "stale"} :
          ims = [ImsIdle EXCEPT !.has_get_bkg_dict = g, !.cwd_is_data = c,
                                !.calcfims = e1, !.input_file = i,
                                !.ims2ioda = e2, !.writes = w, !.data_out = old]

ImsRaise(exc) == ims' = [ims EXCEPT !.pc = "raised", !.exc = exc]

ImsGoto(pc) == ims' = [ims EXCEPT !.pc = pc]

\* the call of prepare_IMS
ImsEnter ==
    /\ ims.pc = "idle"
    /\ ImsGoto("stage_bkg")
    /\ UNCHANGED <<addvars, fin, post, bmat, snow>>

\* line 199: self.get_bkg_dict is looked up on the object; lines 203-224
\* stage the obs, write the namelist and link the executable
ImsStageBkg ==
    /\ ims.pc = "stage_bkg"
    /\ IF "get_bkg_dict" \in SnowAnalysisMethods \cup TaskMethods \/ ims.has_get_bkg_dict
       THEN ImsGoto("calcfims")
       ELSE ImsRaise("AttributeError")
    /\ UNCHANGED <<addvars, fin, post, bmat, snow>>

\* lines 226-235: CALCFIMSEXE is run
ImsCalcfims ==
    /\ ims.pc = "calcfims"
    /\ IF ims.calcfims = "ok"
       THEN ImsGoto("check_input")
       ELSE ImsRaise(ExeRaises(ims.calcfims))
    /\ UNCHANGED <<addvars, fin, post, bmat, snow>>

\* lines 238-241
ImsCheckInput ==
    /\ ims.pc = "check_input"
    /\ IF ims.input_file
       THEN ImsGoto("remove_output")
       ELSE ImsRaise("FileNotFoundError")
    /\ UNCHANGED <<addvars, fin, post, bmat, snow>>

\* lines 246-248: the test is on the path in DATA, rm_p is given the bare
\* file name, which is the file in DATA only when DATA is the working
\* directory
ImsRemoveOutput ==
    /\ ims.pc = "remove_output"
    /\ IF ims.data_out # "none" /\ ims.cwd_is_data
       THEN ims' = [ims EXCEPT !.data_out = "none", !.pc = "convert"]
       ELSE ImsGoto("convert")
    /\ UNCHANGED <<addvars, fin, post, bmat, snow>>

\* lines 250-259: IMS2IODACONV is run
ImsConvert ==
    /\ ims.pc = "convert"
    /\ IF ims.ims2ioda = "ok"
       THEN ims' = [ims EXCEPT !.converter_ran = TRUE,
                               !.data_out = IF ims.writes THEN "fresh" ELSE @,
                               !.pc = "check_output"]
       ELSE ims' = [ims EXCEPT !.converter_ran = TRUE, !.pc = "raised",
                               !.exc = ExeRaises(ims.ims2ioda)]
    /\ UNCHANGED <<addvars, fin, post, bmat, snow>>

\* lines 263-268
ImsCheckOutput ==
    /\ ims.pc = "check_output"
    /\ IF ims.data_out = "none"
       THEN ImsRaise("FileNotFoundError")
       ELSE ims' = [ims EXCEPT !.com_obs = ims.data_out, !.pc = "done"]
    /\ UNCHANGED <<addvars, fin, post, bmat, snow>>

NextIms ==
    \/ ImsEnter
    \/ ImsStageBkg
    \/ ImsCalcfims
    \/ ImsCheckInput
    \/ ImsRemoveOutput
    \/ ImsConvert
    \/ ImsCheckOutput

SpecIms == InitIms /\ [][NextIms]_vars

---------------------------------------------------------------------------
\* the number of times a name occurs in incvars
Occ(v) == Cardinality({i \in DOMAIN incvars : incvars[i] = v})

\* the occurrences of the current name before the current entry
Before(r) == Cardinality({i \in 1..(r.ivar - 1) : incvars[i] = incvars[r.ivar]})

\* C21 (repeated names accumulate): when a call returns, every named
\* variable of every tile's background file holds its value from before
\* the call plus k times the increment, k being the number of times the
\* name occurs in incvars; each occurrence reads the background as the
\* occurrences before it left it; with a repeated name the value is not
\* the prior value plus the increment once (the increments staged are not
\* all zero).
C21_RepeatedNamesAccumulate ==
    /\ status = "returned" =>
         \A t \in Tiles : \A v \in Named :
            PlusTimes(fs0[BkgPath(t)].vars[v].data,
                      fs0[IncPath(t)].vars[v].data, Occ(v),
                      fs[BkgPath(t)].vars[v].data)
    /\ \A t \in Tiles : tl[t].pc = "add" =>
         PlusTimes(fs0[BkgPath(t)].vars[vname(tl[t])].data,
                   fs0[IncPath(t)].vars[vname(tl[t])].data, Before(tl[t]),
                   tl[t].bkg)
    /\ (status = "returned" /\ ~Distinct(incvars)) =>
         \A t \in Tiles : \E v \in Named : Occ(v) >= 2 /\ ~Summed(t, v)

C21_Witness ==
    /\ status = "returned"
    /\ ncalls = 1
    /\ incvars = <<"a", "a">>
    /\ \A t \in Tiles : Count("write", t) = 2 /\ ~Summed(t, "a")

---------------------------------------------------------------------------
\* C22 (file disjointness in the aerosol caller): for either setting of
\* DOIAU and all tiles t # u, the background paths of t and u differ, the
\* increment paths of t and u differ and no increment path is a background
\* path; in a call, no file is open both for reading and for appending,
\* the files changed are never increment paths of the call, and two tiles
\* never have the same background path.
C22_FileDisjointness ==
    /\ \A doiau \in BOOLEAN : \A t, u \in Tiles :
         /\ t # u => Format(bkg_template(doiau), t) # Format(bkg_template(doiau), u)
         /\ t # u => Format(inc_template, t) # Format(inc_template, u)
         /\ Format(inc_template, t) # Format(bkg_template(doiau), u)
    /\ inc_file_tmpl = inc_template
    /\ bkg_file_tmpl = bkg_template(DOIAU)
    /\ \A h, g \in opened : h.mode # g.mode => h.path # g.path
    /\ \A t, u \in Tiles :
         (t # u /\ tl[t].pc # "idle" /\ tl[u].pc # "idle") =>
            /\ tl[t].bkg_path # tl[u].bkg_path
            /\ tl[t].inc_path # tl[u].inc_path
            /\ tl[t].inc_path # tl[u].bkg_path
    /\ \A p \in Paths : fs[p] # fs0[p] =>
         /\ \A t \in Tiles : p # IncPath(t)
         /\ Cardinality({t \in Tiles : tl[t].bkg_path = p}) = 1

C22_Witness ==
    /\ ~DOIAU
    /\ tl[1].pc = "done"
    /\ fs[BkgPath(1)] # fs0[BkgPath(1)]
    /\ \E h, g \in opened :
         h.mode = "a" /\ g.mode = "r" /\ h.tile = NTiles /\ g.tile = NTiles

=============================================================================
